---- MODULE Spec2Model ----
(***************************************************************************)
(* Location fan-out subsystem of gofindme-server: the in-process event bus *)
(* (src/src/services/bus.ts, class LocationBus) and the batching scheduler *)
(* (src/unnamed/part_020, class LocationBatcher).                          *)
(*                                                                         *)
(* The process is a single-threaded Node.js event loop and every method of *)
(* the two classes is synchronous, so one call is one atomic action.  A    *)
(* sink (listener) is a closure created by the caller of subscribe; its    *)
(* only modelled behaviour is whether it returns or throws.                *)
(***************************************************************************)
EXTENDS Integers, Sequences, FiniteSets, TLC

(***************************************************************************)
(* Input domains and bounds                                                *)
(***************************************************************************)
Groups == {"g1", "g2"}
ApiKeys == {"k1", "k2", "k3"}
Users == {"u1", "u2"}
Devices == {"d1"}
Freqs == {1, 2}

\* scope of Spec: calls of each kind, and calls in all
MaxSubs == 2
MaxEnq == 3
MaxAdvance == 2
MaxOps == 4
\* scope of SpecHistory
MaxHistorySubs == 1
MaxHistoryOps == 5
\* scope of SpecTiming
MaxTimingEnq == 4
MaxTimingAdvance == 4
\* scope of SpecIngest
MaxIngestSubs == 2
MaxIngestEnq == 2
MaxIngestAdvance == 1
MaxIngestOps == 4
\* scope of SpecSequence
MaxSequenceSubs == 1
MaxSequenceEnq == 3
MaxSequenceAdvance == 2
MaxSequenceOps == 6
\* scope of SpecStream: stream connections, and calls in all
MaxConns == 2
MaxStreamOps == 5

MaxKeysEnq == 3
MaxKeysAdvance == 1

MaxBucketsSubs == 1
MaxBucketsEnq == 3
MaxBucketsAdvance == 2
MaxBucketsOps == 5

MaxReentrantSubs == 1
MaxReentrantEnq == 3
MaxReentrantAdvance == 2
MaxReentrantOps == 6

MaxLiveSubs == 1
MaxLiveEnq == 3
MaxLiveAdvance == 5

NoValue == "undefined"

\* the n-th submission reports a position of its own, so that two updates
\* are always told apart; the code never inspects the coordinates
Payload(deviceId, n) == [deviceId |-> deviceId, latitude |-> n, longitude |-> 0 - n]

(***************************************************************************)
(* JavaScript Map helpers: a Map is a function whose DOMAIN is its key set *)
(***************************************************************************)
EmptyMap == [k \in {} |-> NoValue]

MapHas(m, k) == k \in DOMAIN m

MapGet(m, k) == IF k \in DOMAIN m THEN m[k] ELSE NoValue

MapSet(m, k, v) == [x \in (DOMAIN m) \cup {k} |-> IF x = k THEN v ELSE m[x]]

MapDelete(m, k) == [x \in (DOMAIN m) \ {k} |-> m[x]]

\* the value of a one-element set: { e(r) : r \in {x} } binds r to the result
\* x of a call, as a const declaration does
Only(S) == CHOOSE v \in S : TRUE

RECURSIVE SeqMax(_)
SeqMax(S) == IF S = {} THEN 0
             ELSE LET x == CHOOSE y \in S : TRUE
                      r == SeqMax(S \ {x})
                  IN IF x > r THEN x ELSE r

VARIABLES
    activeSubscribers,  \* bus.ts:20  Map groupId -> Set of apiKeyId
    subscriberDetails,  \* bus.ts:26  Map apiKeyId -> SubscriberInfo
    listeners,          \* EventEmitter listener arrays, one per event name
    subs,               \* the closures handed out by subscribe, in call order
    groupQueues,        \* part_020:24 Map groupId -> QueuedLocationUpdate[]
    lastPublished,      \* part_020:27 Map groupId -> time of last flush (ms)
    groupFrequencies,   \* part_020:30 Map groupId -> ms, in insertion order
    intervalTimers,     \* part_020:33 Map frequencyMs -> timer handle
    frequencies,        \* part_020:36 Set of frequencyMs
    timers,             \* the runtime's live setInterval timers
    now,                \* Date.now(), ms
    crashed,            \* an exception escaped a timer callback
    delivered,          \* sink invocations made by the last action
    call,               \* the last action and what it did
    hist,               \* history of enqueues and flushes, per group
    enqCount,           \* number of queueLocationUpdate calls made
    opCount,            \* number of calls made in all
    scope,              \* the bounds of this exploration
    locations,          \* the rows of the locations table, in insertion order
    revoked,            \* the API keys whose revoked_at is set
    conns               \* the stream connections, in arrival order

busVars == <<activeSubscribers, subscriberDetails, listeners, subs>>
batcherVars == <<groupQueues, lastPublished, groupFrequencies, intervalTimers, frequencies, timers>>
dbVars == <<locations, revoked>>
vars == <<activeSubscribers, subscriberDetails, listeners, subs, groupQueues,
          lastPublished, groupFrequencies, intervalTimers, frequencies, timers,
          now, crashed, delivered, call, hist, enqCount, opCount, scope,
          locations, revoked, conns>>

(***************************************************************************)
(* Event bus (src/src/services/bus.ts)                                     *)
(***************************************************************************)
\* variant: the event carries the payload's device and a zeroed position
Enrich_NoPosition(groupId, payload) ==
    [type |-> "location",
     data |-> [deviceId |-> payload.deviceId, latitude |-> 0, longitude |-> 0,
               groupId |-> groupId]]

\* { ...payload, groupId } wrapped as a GroupEvent
Enrich(groupId, payload) ==
    [type |-> "location",
     data |-> [deviceId |-> payload.deviceId, latitude |-> payload.latitude,
               longitude |-> payload.longitude, groupId |-> groupId]]

\* Does the sink behind listener id sid throw when it is invoked?
SinkThrows(sid) == subs[sid].throws

\* variant: the event reaches the listeners of every event name
Emit_Broadcast(eventName, event) ==
    [deliv |-> [i \in 1..Len(subs) |-> [sid |-> i, event |-> event]], threw |-> FALSE]

\* EventEmitter.emit: the listeners of the event name are called in
\* registration order; an exception thrown by one propagates to the caller
\* of emit and the listeners after it are not called.
RECURSIVE EmitFrom(_, _, _)
EmitFrom(ls, i, event) ==
    IF i > Len(ls) THEN [deliv |-> << >>, threw |-> FALSE]
    ELSE IF SinkThrows(ls[i])
         THEN [deliv |-> <<[sid |-> ls[i], event |-> event]>>, threw |-> TRUE]
         ELSE Only({ [deliv |-> <<[sid |-> ls[i], event |-> event]>> \o r.deliv,
                      threw |-> r.threw] : r \in {EmitFrom(ls, i + 1, event)} })

Emit(eventName, event) == EmitFrom(listeners[eventName], 1, event)

\* publishLocation(groupId, payload): the sinks it invokes, and whether it threw
publishLocation(groupId, payload) ==
    IF ~MapHas(activeSubscribers, groupId) \/ Cardinality(activeSubscribers[groupId]) = 0
    THEN [deliv |-> << >>, threw |-> FALSE]
    ELSE Emit(groupId, Enrich(groupId, payload))

\* variant: only the first group of the batch is published to
groupsWithSubscribers_First(groupIds) ==
    IF groupIds = << >> THEN << >> ELSE <<Head(groupIds)>>

\* groupIds.filter(has subscribers)
RECURSIVE groupsWithSubscribers(_)
groupsWithSubscribers(groupIds) ==
    IF groupIds = << >> THEN << >>
    ELSE (IF MapHas(activeSubscribers, Head(groupIds))
                /\ Cardinality(activeSubscribers[Head(groupIds)]) > 0
          THEN <<Head(groupIds)>> ELSE << >>) \o groupsWithSubscribers(Tail(groupIds))

\* one publishLocation call, for the properties: c says what was published,
\* r.deliv the sinks that were invoked
CallRecord(c, r) == [x \in DOMAIN c \cup {"sids"} |->
                       IF x = "sids" THEN [i \in 1..Len(r.deliv) |-> r.deliv[i].sid] ELSE c[x]]

\* groupsWithSubscribers.forEach(publishLocation): an exception ends the loop
RECURSIVE PublishEach(_, _)
PublishEach(groupIds, payload) ==
    IF groupIds = << >> THEN [deliv |-> << >>, threw |-> FALSE, calls |-> << >>]
    ELSE Only({ IF r.threw
                THEN [deliv |-> r.deliv, threw |-> TRUE, calls |-> <<CallRecord(c, r)>>]
                ELSE Only({ [deliv |-> r.deliv \o rest.deliv, threw |-> rest.threw,
                             calls |-> <<CallRecord(c, r)>> \o rest.calls]
                            : rest \in {PublishEach(Tail(groupIds), payload)} })
                : c \in {[groupId |-> Head(groupIds), payload |-> payload]},
                  r \in {publishLocation(Head(groupIds), payload)} })

publishLocationToGroups(groupIds, payload) ==
    PublishEach(groupsWithSubscribers(groupIds), payload)

\* variant: off() leaves the listener registered
RemoveLast_Keep(ls, x) == ls

\* EventEmitter.off: removes the most recently added instance of the listener
RECURSIVE RemoveLast(_, _)
RemoveLast(ls, x) ==
    IF ls = << >> THEN << >>
    ELSE IF ls[Len(ls)] = x THEN SubSeq(ls, 1, Len(ls) - 1)
         ELSE Append(RemoveLast(SubSeq(ls, 1, Len(ls) - 1), x), ls[Len(ls)])

getSubscriberCount(groupId) ==
    IF MapHas(activeSubscribers, groupId) THEN Cardinality(activeSubscribers[groupId]) ELSE 0

hasSubscribers(groupId) == getSubscriberCount(groupId) > 0

(***************************************************************************)
(* Batching scheduler (src/unnamed/part_020)                               *)
(***************************************************************************)
MsPerSecond == 1000

\* new Date(0): a group that was never published
Epoch == 0

SecondsToMs(frequencySeconds) == frequencySeconds * MsPerSecond

\* the ordered Map groupFrequencies as a sequence of [groupId, frequency]
OrdHas(m, k) == \E i \in 1..Len(m) : m[i].groupId = k

OrdGet(m, k) == m[CHOOSE i \in 1..Len(m) : m[i].groupId = k].frequency

\* Map.set keeps the position of an existing key and appends a new one
OrdSet(m, k, v) ==
    IF OrdHas(m, k)
    THEN [i \in 1..Len(m) |-> IF m[i].groupId = k THEN [groupId |-> k, frequency |-> v] ELSE m[i]]
    ELSE Append(m, [groupId |-> k, frequency |-> v])

\* the key publishQueuedUpdates builds: `${update.userId}:${update.deviceId}`
UpdateKey(update) == update.userId \o ":" \o update.deviceId

\* variant: the filter of lines 67-69 keeps every pending entry
FilterOthers_KeepAll(queue, userId, deviceId) == queue

\* queue.filter(update => !(update.userId === userId && update.deviceId === deviceId))
RECURSIVE FilterOthers(_, _, _)
FilterOthers(queue, userId, deviceId) ==
    IF queue = << >> THEN << >>
    ELSE (IF ~(Head(queue).userId = userId /\ Head(queue).deviceId = deviceId)
          THEN <<Head(queue)>> ELSE << >>) \o FilterOthers(Tail(queue), userId, deviceId)

\* variant: a pair's pending entry is kept and the new update is dropped
Coalesce_KeepOldest(queue, payload, userId, deviceId, t) ==
    IF \E i \in 1..Len(queue) : queue[i].userId = userId /\ queue[i].deviceId = deviceId
    THEN queue
    ELSE Append(queue, [payload |-> payload, userId |-> userId, deviceId |-> deviceId,
                        queuedAt |-> t])

\* lines 66-79: drop the pair's pending entry, push the new one
Coalesce(queue, payload, userId, deviceId, t) ==
    Append(FilterOthers(queue, userId, deviceId),
           [payload |-> payload, userId |-> userId, deviceId |-> deviceId, queuedAt |-> t])

\* the latestUpdates Map of publishQueuedUpdates, as its values() in insertion order
RECURSIVE LatestFrom(_, _, _, _)
LatestFrom(queue, i, keys, vals) ==
    IF i > Len(queue) THEN [j \in 1..Len(keys) |-> vals[keys[j]]]
    ELSE LatestFrom(queue, i + 1,
                    IF MapHas(vals, UpdateKey(queue[i])) THEN keys
                    ELSE Append(keys, UpdateKey(queue[i])),
                    IF ~MapHas(vals, UpdateKey(queue[i]))
                       \/ queue[i].queuedAt > vals[UpdateKey(queue[i])].queuedAt
                    THEN MapSet(vals, UpdateKey(queue[i]), queue[i]) ELSE vals)

LatestUpdates(queue) == LatestFrom(queue, 1, << >>, EmptyMap)

\* for (const update of latestUpdates.values()) locationBus.publishLocation(...)
RECURSIVE PublishUpdates(_, _)
PublishUpdates(groupId, updates) ==
    IF updates = << >> THEN [deliv |-> << >>, threw |-> FALSE, calls |-> << >>]
    ELSE Only({ IF r.threw
                THEN [deliv |-> r.deliv, threw |-> TRUE, calls |-> <<CallRecord(c, r)>>]
                ELSE Only({ [deliv |-> r.deliv \o rest.deliv, threw |-> rest.threw,
                             calls |-> <<CallRecord(c, r)>> \o rest.calls]
                            : rest \in {PublishUpdates(groupId, Tail(updates))} })
                : c \in {[userId |-> Head(updates).userId, deviceId |-> Head(updates).deviceId,
                          payload |-> Head(updates).payload]},
                  r \in {publishLocation(groupId, Head(updates).payload)} })

\* variant: a flush stamps the group even when nothing is pending
publishQueuedUpdates_StampEmpty(Q, P, groupId, t) ==
    [Q |-> IF MapHas(Q, groupId) THEN MapSet(Q, groupId, << >>) ELSE Q,
     P |-> MapSet(P, groupId, t), deliv |-> << >>, threw |-> FALSE, flushes |-> << >>]

\* variant: a flush that reached no sink keeps the entries for a later flush
publishQueuedUpdates_KeepUndelivered(Q, P, groupId, t) ==
    IF ~MapHas(Q, groupId) \/ Len(Q[groupId]) = 0
    THEN [Q |-> Q, P |-> P, deliv |-> << >>, threw |-> FALSE, flushes |-> << >>]
    ELSE Only({ [Q |-> IF r.threw \/ r.deliv = << >> THEN Q ELSE MapSet(Q, groupId, << >>),
                 P |-> IF r.threw \/ r.deliv = << >> THEN P ELSE MapSet(P, groupId, t),
                 deliv |-> r.deliv, threw |-> r.threw,
                 flushes |-> <<[groupId |-> groupId, at |-> t, calls |-> r.calls,
                                completed |-> ~r.threw, during |-> << >>]>>]
                : r \in {PublishUpdates(groupId, LatestUpdates(Q[groupId]))} })

\* A sink is any function: the sinks of the API keys in Producers call
\* locationBatcher.queueLocationUpdate from their callback, for the group of
\* the event they were given, with the group's current frequency and a
\* position of their own derived from the event
Producers == IF "producers" \in DOMAIN scope THEN scope.producers ELSE {}

ProducerOffset == 10

ProducedUpdate(event, t) ==
    [payload |-> Payload("d1", event.data.latitude + ProducerOffset), userId |-> "u2",
     deviceId |-> "d1", queuedAt |-> t]

\* the group's pending list after the callbacks of one publish loop: each
\* invocation of a producing sink that returned has run lines 66-79 on it
RECURSIVE Reentered(_, _, _, _)
Reentered(queue, deliv, i, t) ==
    IF i > Len(deliv) THEN queue
    ELSE Reentered(IF subs[deliv[i].sid].apiKeyId \in Producers /\ ~SinkThrows(deliv[i].sid)
                   THEN Only({ Coalesce(queue, u.payload, u.userId, u.deviceId, t)
                               : u \in {ProducedUpdate(deliv[i].event, t)} })
                   ELSE queue,
                   deliv, i + 1, t)

\* the updates enqueued from sink callbacks during one publish loop, in order
RECURSIVE ProducedFrom(_, _, _)
ProducedFrom(deliv, i, t) ==
    IF i > Len(deliv) THEN << >>
    ELSE (IF subs[deliv[i].sid].apiKeyId \in Producers /\ ~SinkThrows(deliv[i].sid)
          THEN <<ProducedUpdate(deliv[i].event, t)>> ELSE << >>)
         \o ProducedFrom(deliv, i + 1, t)

Produced(deliv, t) == ProducedFrom(deliv, 1, t)

\* publishQueuedUpdates(groupId) on queues Q and stamps P at time t.  An
\* exception of publishLocation leaves the method before the queue is
\* cleared and the stamp is written.  The
\* callbacks of the publish loop may have enqueued in the meantime: the
\* queue is replaced by [] all the same (line 153).
publishQueuedUpdates(Q, P, groupId, t) ==
    IF ~MapHas(Q, groupId) \/ Len(Q[groupId]) = 0
    THEN [Q |-> Q, P |-> P, deliv |-> << >>, threw |-> FALSE, flushes |-> << >>]
    ELSE Only({ Only({ [Q |-> IF r.threw THEN MapSet(Q, groupId, queue)
                              ELSE MapSet(Q, groupId, << >>),
                        P |-> IF r.threw THEN P ELSE MapSet(P, groupId, t),
                        deliv |-> r.deliv, threw |-> r.threw,
                        flushes |-> <<[groupId |-> groupId, at |-> t, calls |-> r.calls,
                                       completed |-> ~r.threw,
                                       during |-> Produced(r.deliv, t)]>>]
                       : queue \in {Reentered(Q[groupId], r.deliv, 1, t)} })
                : r \in {PublishUpdates(groupId, LatestUpdates(Q[groupId]))} })

\* variant: the pass flushes every group of the bucket
IsDue_Always(P, groupId, frequencyMs, t) == TRUE

\* timeSinceLastPublished >= frequencyMs  (a missing stamp counts as Infinity)
IsDue(P, groupId, frequencyMs, t) ==
    IF MapHas(P, groupId) THEN t - P[groupId] >= frequencyMs ELSE TRUE

\* processQueuesAtFrequency(frequencyMs): the loop over groupFrequencies.entries()
RECURSIVE ProcessFrom(_, _, _, _, _, _)
ProcessFrom(GF, i, Q, P, frequencyMs, t) ==
    IF i > Len(GF) THEN [Q |-> Q, P |-> P, deliv |-> << >>, threw |-> FALSE, flushes |-> << >>]
    ELSE IF GF[i].frequency # frequencyMs
         THEN ProcessFrom(GF, i + 1, Q, P, frequencyMs, t)
         ELSE IF ~IsDue(P, GF[i].groupId, frequencyMs, t)
              THEN ProcessFrom(GF, i + 1, Q, P, frequencyMs, t)
              ELSE Only({ IF r.threw THEN r
                          ELSE Only({ [Q |-> rest.Q, P |-> rest.P,
                                       deliv |-> r.deliv \o rest.deliv, threw |-> rest.threw,
                                       flushes |-> r.flushes \o rest.flushes]
                                      : rest \in {ProcessFrom(GF, i + 1, r.Q, r.P, frequencyMs, t)} })
                          : r \in {publishQueuedUpdates(Q, P, GF[i].groupId, t)} })

processQueuesAtFrequency(GF, Q, P, frequencyMs, t) == ProcessFrom(GF, 1, Q, P, frequencyMs, t)

\* a fresh timer handle
NewTimerId == SeqMax(DOMAIN timers) + 1

\* ensureIntervalTimer(frequencyMs) after the batcher state became (GF, Q, P):
\* setInterval, then the immediate pass, then the handle is recorded -- unless
\* the pass threw, in which case the running timer is never recorded.
ensureIntervalTimer(GF, Q, P, frequencyMs, t) ==
    IF MapHas(intervalTimers, frequencyMs)
    THEN [Q |-> Q, P |-> P, deliv |-> << >>, threw |-> FALSE, flushes |-> << >>,
          timers |-> timers, intervalTimers |-> intervalTimers, created |-> FALSE]
    ELSE Only({ [Q |-> r.Q, P |-> r.P, deliv |-> r.deliv, threw |-> r.threw,
                 flushes |-> r.flushes,
                 timers |-> MapSet(timers, id, [frequency |-> frequencyMs,
                                                due |-> t + frequencyMs]),
                 intervalTimers |-> IF r.threw THEN intervalTimers
                                    ELSE MapSet(intervalTimers, frequencyMs, id),
                 created |-> TRUE]
                : id \in {NewTimerId},
                  r \in {processQueuesAtFrequency(GF, Q, P, frequencyMs, t)} })

(***************************************************************************)
(* History (not program state): what was enqueued and flushed, per group   *)
(***************************************************************************)
Min(a, b) == IF a < b THEN a ELSE b

\* latest:   pair -> payload of the last queueLocationUpdate since the queue was cleared
\* count:    pair -> number of queueLocationUpdate calls since the queue was cleared
\* burst:    pair -> the sinks invoked for the pair since its burst began
\* deadline: pair -> enqueue time + 2F of the oldest update not yet passed to the bus
\* flushAt:  the last two flushes of the group, each with the group's frequency then
EmptyHist == [latest |-> EmptyMap, count |-> EmptyMap, burst |-> EmptyMap,
              deadline |-> EmptyMap, flushAt |-> << >>]

\* a queueLocationUpdate(groupId, payload, userId, deviceId, frequencySeconds) at time t
HistEnqueue(h, pair, payload, frequencyMs, t) ==
    [h EXCEPT
       !.latest = MapSet(@, pair, payload),
       !.count = MapSet(@, pair, IF MapHas(@, pair) THEN Min(@[pair] + 1, 2) ELSE 1),
       !.burst = IF "burst" \notin scope.track \/ (MapHas(@, pair) /\ ~@[pair].closed) THEN @
                 ELSE MapSet(@, pair, [base |-> Len(subs), cnt |-> [s \in {} |-> 0], closed |-> FALSE]),
       !.deadline = IF "deadline" \notin scope.track THEN @
                    ELSE MapSet(@, pair, IF MapHas(@, pair) THEN Min(@[pair], t + 2 * frequencyMs)
                                         ELSE t + 2 * frequencyMs)]

\* one publishLocation call made by a flush for the entry of pair
RECURSIVE CountSids(_, _)
CountSids(cnt, sids) ==
    IF sids = << >> THEN cnt
    ELSE CountSids(MapSet(cnt, Head(sids), IF MapHas(cnt, Head(sids)) THEN Min(cnt[Head(sids)] + 1, 2) ELSE 1),
                   Tail(sids))

RECURSIVE HistCalls(_, _, _)
HistCalls(h, calls, byTimer) ==
    IF calls = << >> THEN h
    ELSE HistCalls(Only({ [h EXCEPT
                             !.deadline = MapDelete(@, pair),
                             !.burst = IF MapHas(@, pair)
                                       THEN MapSet(@, pair,
                                                   [base |-> @[pair].base,
                                                    cnt |-> CountSids(@[pair].cnt, c.sids),
                                                    closed |-> @[pair].closed \/ byTimer])
                                       ELSE @]
                          : c \in {Head(calls)},
                            pair \in {<<Head(calls).userId, Head(calls).deviceId>>} }),
                   Tail(calls), byTimer)

\* the flushes of one pass, in order
RECURSIVE HistFlushes(_, _, _, _)
HistFlushes(H, GF, flushes, byTimer) ==
    IF flushes = << >> THEN H
    ELSE HistFlushes(Only({ [H EXCEPT ![f.groupId] =
                               [h1 EXCEPT
                                  !.latest = IF f.completed THEN EmptyMap ELSE @,
                                  !.count = IF f.completed THEN EmptyMap ELSE @,
                                  !.flushAt = IF "flushAt" \notin scope.track THEN @
                                              ELSE IF Len(@) = 0 THEN <<e>>
                                              ELSE <<@[Len(@)], e>>]]
                            : f \in {Head(flushes)},
                              h1 \in {HistCalls(H[Head(flushes).groupId], Head(flushes).calls,
                                                byTimer)},
                              e \in {[at |-> Head(flushes).at,
                                      frequency |-> OrdGet(GF, Head(flushes).groupId)]} }),
                     GF, Tail(flushes), byTimer)

\* what a flush record says about the flush, for the properties
FlushInfo(flushes, H) ==
    [i \in 1..Len(flushes) |->
       [groupId |-> flushes[i].groupId, at |-> flushes[i].at, calls |-> flushes[i].calls,
        completed |-> flushes[i].completed, during |-> flushes[i].during,
        pending |-> H[flushes[i].groupId].latest,
        count |-> H[flushes[i].groupId].count]]

(***************************************************************************)
(* Actions                                                                 *)
(***************************************************************************)
\* the frequency a handler passes when a share has none (part_016:241, part_009:171)
DefaultFrequencySeconds == 30

\* the clock starts later than the longest frequency after the epoch, as any
\* real clock does
StartMs == SecondsToMs(SeqMax(Freqs \cup {DefaultFrequencySeconds}) + 1)

\* Spec: every operation, the history of pending payloads only
FullScope == [subs |-> MaxSubs, enq |-> MaxEnq, adv |-> MaxAdvance, ops |-> MaxOps,
              groups |-> Groups, keys |-> ApiKeys, track |-> {}]

\* SpecHistory: every operation on one group, with the history of bursts and
\* flush times
HistoryScope == [subs |-> MaxHistorySubs, enq |-> MaxEnq, adv |-> MaxAdvance,
                 ops |-> MaxHistoryOps, groups |-> {"g1"}, keys |-> {"k2"},
                 track |-> {"burst", "flushAt"}]

\* SpecTiming: the scheduler alone on one group, with the history of deadlines
TimingScope == [subs |-> 0, enq |-> MaxTimingEnq, adv |-> MaxTimingAdvance,
                ops |-> MaxTimingEnq + MaxTimingAdvance, groups |-> {"g1"},
                keys |-> {}, track |-> {"deadline", "flushAt"}]

\* SpecIngest: the POST /locations handlers over the bus and the scheduler
IngestScope == [subs |-> MaxIngestSubs, enq |-> MaxIngestEnq, adv |-> MaxIngestAdvance,
                ops |-> MaxIngestOps, groups |-> Groups, keys |-> ApiKeys, track |-> {},
                users |-> {"u1", "u2", "u3"}, lists |-> {<< >>, <<"g1">>, <<"g2">>, <<"g1", "g2">>},
                fails |-> BOOLEAN]

\* SpecSequence: one user submitting to g1 again and again through the
\* batching routes, one subscriber, with the history of bursts
SequenceScope == [subs |-> MaxSequenceSubs, enq |-> MaxSequenceEnq,
                  adv |-> MaxSequenceAdvance, ops |-> MaxSequenceOps, groups |-> {"g1"},
                  keys |-> {"k1"}, track |-> {"burst"}, users |-> {"u1"},
                  lists |-> {<< >>, <<"g1">>}, fails |-> {FALSE}]

\* SpecStream: the GET /stream connections over the bus
StreamScope == [subs |-> 0, enq |-> 0, adv |-> 0, ops |-> MaxStreamOps, groups |-> Groups,
                keys |-> ApiKeys, track |-> {}, conns |-> MaxConns]

\* SpecKeys: the scheduler alone on one group, with identifiers as the routes
\* pass them
KeysScope == [subs |-> 0, enq |-> MaxKeysEnq, adv |-> MaxKeysAdvance,
              ops |-> MaxKeysEnq + MaxKeysAdvance, groups |-> {"g1"}, keys |-> {},
              track |-> {}]

\* SpecBuckets: the scheduler on two groups with setGroupFrequency, and one
\* subscriber of g1
BucketsScope == [subs |-> MaxBucketsSubs, enq |-> MaxBucketsEnq, adv |-> MaxBucketsAdvance,
                 ops |-> MaxBucketsOps, groups |-> Groups, keys |-> {"k2"}, track |-> {}]

\* SpecReentrant: the scheduler with one subscriber of g1 whose sink enqueues
\* from its callback
ReentrantScope == [subs |-> MaxReentrantSubs, enq |-> MaxReentrantEnq,
                   adv |-> MaxReentrantAdvance, ops |-> MaxReentrantOps, groups |-> Groups,
                   keys |-> {"k1"}, track |-> {}, producers |-> {"k1"}]

\* SpecLive: the scheduler on one group with one subscriber, under fair
\* timers; the operation budget never stops the clock
LiveScope == [subs |-> MaxLiveSubs, enq |-> MaxLiveEnq, adv |-> MaxLiveAdvance,
              ops |-> MaxLiveSubs + MaxLiveEnq + MaxLiveAdvance, groups |-> {"g1"},
              keys |-> {"k2"}, track |-> {}]

InitState ==
    /\ activeSubscribers = EmptyMap
    /\ subscriberDetails = EmptyMap
    /\ listeners = [g \in Groups |-> << >>]
    /\ subs = << >>
    /\ groupQueues = EmptyMap
    /\ lastPublished = EmptyMap
    /\ groupFrequencies = << >>
    /\ intervalTimers = EmptyMap
    /\ frequencies = {}
    /\ timers = EmptyMap
    /\ now = StartMs
    /\ crashed = FALSE
    /\ delivered = << >>
    /\ call = [op |-> "init"]
    /\ hist = [g \in Groups |-> EmptyHist]
    /\ enqCount = 0
    /\ opCount = 0
    /\ locations = << >>
    /\ conns = << >>

\* the group an API key was issued for (api_keys.group_id)
KeyGroup == [k \in ApiKeys |-> IF k = "k3" THEN "g2" ELSE "g1"]

\* subscribe(groupId, apiKeyId, listener) with a fresh listener closure
Subscribe(groupId, apiKeyId, throws) ==
    /\ ~crashed
    /\ apiKeyId \in scope.keys
    /\ apiKeyId \notin revoked
    /\ groupId = KeyGroup[apiKeyId]
    /\ opCount < scope.ops
    /\ Len(subs) < scope.subs
    /\ activeSubscribers' =
         MapSet(activeSubscribers, groupId,
                (IF MapHas(activeSubscribers, groupId) THEN activeSubscribers[groupId] ELSE {})
                  \cup {apiKeyId})
    /\ subscriberDetails' = MapSet(subscriberDetails, apiKeyId,
                                   [apiKeyId |-> apiKeyId, groupId |-> groupId])
    /\ listeners' = [listeners EXCEPT ![groupId] = Append(@, Len(subs) + 1)]
    /\ subs' = Append(subs, [groupId |-> groupId, apiKeyId |-> apiKeyId,
                             throws |-> throws, cancelled |-> FALSE])
    /\ delivered' = << >>
    /\ call' = [op |-> "subscribe", sid |-> Len(subs) + 1]
    /\ opCount' = opCount + 1
    /\ UNCHANGED <<batcherVars, now, crashed, hist, enqCount, scope, dbVars, conns>>

\* unsubscribe(groupId, apiKeyId, listener), reached through the function
\* subscribe returned; the owner of a subscription calls it once
unsubscribe(sid) ==
    LET groupId == subs[sid].groupId
        apiKeyId == subs[sid].apiKeyId
        subscribers == IF MapHas(activeSubscribers, groupId)
                       THEN activeSubscribers[groupId] \ {apiKeyId} ELSE {}
    IN /\ listeners' = [listeners EXCEPT ![groupId] = RemoveLast(@, sid)]
       /\ activeSubscribers' =
            IF ~MapHas(activeSubscribers, groupId) THEN activeSubscribers
            ELSE IF Cardinality(subscribers) = 0 THEN MapDelete(activeSubscribers, groupId)
                 ELSE MapSet(activeSubscribers, groupId, subscribers)
       /\ subscriberDetails' = MapDelete(subscriberDetails, apiKeyId)

Cancel(sid) ==
    /\ ~crashed
    /\ opCount < scope.ops
    /\ sid \in 1..Len(subs)
    /\ ~subs[sid].cancelled
    /\ unsubscribe(sid)
    /\ subs' = [subs EXCEPT ![sid].cancelled = TRUE]
    /\ delivered' = << >>
    /\ call' = [op |-> "cancel", sid |-> sid]
    /\ opCount' = opCount + 1
    /\ UNCHANGED <<batcherVars, now, crashed, hist, enqCount, scope, dbVars, conns>>

\* a route calls locationBus.publishLocationToGroups(groupIds, payload)
PublishToGroups(groupIds, payload) ==
    /\ ~crashed
    /\ \E r \in {publishLocationToGroups(groupIds, payload)} :
          /\ delivered' = r.deliv
          /\ call' = [op |-> "publish", groupIds |-> groupIds, payload |-> payload,
                      calls |-> r.calls, threw |-> r.threw]
    /\ UNCHANGED <<busVars, batcherVars, now, crashed, hist, enqCount, opCount, scope, dbVars, conns>>

\* queueLocationUpdate(groupId, payload, userId, deviceId, frequencySeconds)
QueueLocationUpdate(groupId, payload, userId, deviceId, frequencySeconds) ==
    /\ ~crashed
    /\ opCount < scope.ops
    /\ enqCount < scope.enq
    /\ groupId \in scope.groups
    /\ payload.deviceId = deviceId
    /\ \E Q0 \in {IF MapHas(groupQueues, groupId) THEN groupQueues
                   ELSE MapSet(groupQueues, groupId, << >>)},
          P0 \in {IF MapHas(groupQueues, groupId) THEN lastPublished
                   ELSE MapSet(lastPublished, groupId, Epoch)},
          frequencyMs \in {SecondsToMs(frequencySeconds)} :
       \E GF \in {OrdSet(groupFrequencies, groupId, frequencyMs)},
          Q1 \in {MapSet(Q0, groupId, Coalesce(Q0[groupId], payload, userId, deviceId, now))},
          H1 \in {[hist EXCEPT ![groupId] =
                     HistEnqueue(@, <<userId, deviceId>>, payload, frequencyMs, now)]} :
       \E r \in {ensureIntervalTimer(GF, Q1, P0, frequencyMs, now)} :
          /\ groupQueues' = r.Q
          /\ lastPublished' = r.P
          /\ groupFrequencies' = GF
          /\ frequencies' = frequencies \cup {frequencyMs}
          /\ timers' = r.timers
          /\ intervalTimers' = r.intervalTimers
          /\ delivered' = r.deliv
          /\ hist' = HistFlushes(H1, GF, r.flushes, FALSE)
          /\ call' = [op |-> "queue", groupId |-> groupId, userId |-> userId,
                      deviceId |-> deviceId, payload |-> payload,
                      frequency |-> frequencyMs, created |-> r.created,
                      elapsed |-> now - P0[groupId], threw |-> r.threw,
                      flushes |-> FlushInfo(r.flushes, H1)]
    /\ enqCount' = enqCount + 1
    /\ opCount' = opCount + 1
    /\ UNCHANGED <<busVars, now, crashed, scope, dbVars, conns>>

\* setGroupFrequency(groupId, frequencySeconds): the assignment, then
\* ensureIntervalTimer; no queue and no stamp are created for the group
SetGroupFrequency(groupId, frequencySeconds) ==
    /\ ~crashed
    /\ opCount < scope.ops
    /\ groupId \in scope.groups
    /\ \E frequencyMs \in {SecondsToMs(frequencySeconds)} :
       \E GF \in {OrdSet(groupFrequencies, groupId, frequencyMs)} :
       \E r \in {ensureIntervalTimer(GF, groupQueues, lastPublished, frequencyMs, now)} :
          /\ groupQueues' = r.Q
          /\ lastPublished' = r.P
          /\ groupFrequencies' = GF
          /\ frequencies' = frequencies \cup {frequencyMs}
          /\ timers' = r.timers
          /\ intervalTimers' = r.intervalTimers
          /\ delivered' = r.deliv
          /\ hist' = HistFlushes(hist, GF, r.flushes, FALSE)
          /\ call' = [op |-> "setFrequency", groupId |-> groupId, frequency |-> frequencyMs,
                      created |-> r.created, threw |-> r.threw,
                      flushes |-> FlushInfo(r.flushes, hist)]
    /\ opCount' = opCount + 1
    /\ UNCHANGED <<busVars, now, crashed, enqCount, scope, dbVars, conns>>

\* the runtime fires the setInterval callback of timer id: processQueuesAtFrequency.
\* An exception that escapes the callback is uncaught and ends the process.
TimerTick(id) ==
    /\ ~crashed
    /\ id \in DOMAIN timers
    /\ timers[id].due <= now
    /\ \E frequencyMs \in {timers[id].frequency} :
       \E r \in {processQueuesAtFrequency(groupFrequencies, groupQueues, lastPublished,
                                          frequencyMs, now)} :
          /\ groupQueues' = r.Q
          /\ lastPublished' = r.P
          /\ timers' = [timers EXCEPT ![id].due = @ + frequencyMs]
          /\ crashed' = r.threw
          /\ delivered' = r.deliv
          /\ hist' = HistFlushes(hist, groupFrequencies, r.flushes, TRUE)
          /\ call' = [op |-> "tick", frequency |-> frequencyMs, threw |-> r.threw,
                      flushes |-> FlushInfo(r.flushes, hist)]
    /\ UNCHANGED <<busVars, groupFrequencies, intervalTimers, frequencies, now, enqCount, opCount, scope, dbVars, conns>>

\* time passes; a timer that is due fires before the clock moves on
Advance ==
    /\ ~crashed
    /\ opCount < scope.ops
    /\ now < StartMs + SecondsToMs(scope.adv)
    /\ \A id \in DOMAIN timers : timers[id].due > now
    /\ now' = now + MsPerSecond
    /\ delivered' = << >>
    /\ call' = [op |-> "advance"]
    /\ opCount' = opCount + 1
    /\ UNCHANGED <<busVars, batcherVars, crashed, hist, enqCount, scope, dbVars, conns>>

\* shutdown(): clearInterval for every recorded timer, then clear all Maps
Shutdown ==
    /\ ~crashed
    /\ opCount < scope.ops
    /\ timers' = [id \in (DOMAIN timers) \ {intervalTimers[f] : f \in DOMAIN intervalTimers}
                    |-> timers[id]]
    /\ intervalTimers' = EmptyMap
    /\ groupQueues' = EmptyMap
    /\ lastPublished' = EmptyMap
    /\ groupFrequencies' = << >>
    /\ frequencies' = {}
    /\ hist' = [g \in Groups |-> EmptyHist]
    /\ delivered' = << >>
    /\ call' = [op |-> "shutdown"]
    /\ opCount' = opCount + 1
    /\ UNCHANGED <<busVars, now, crashed, enqCount, scope, dbVars, conns>>

(***************************************************************************)
(* Ingestion: the POST /locations handlers                                 *)
(***************************************************************************)
\* the users that submit locations: "u3" has no accepted membership
Submitters == Users \cup {"u3"}

\* the rows of group_members, in created_at order
GroupMembers ==
    << [user_id |-> "u1", group_id |-> "g1", status |-> "accepted"],
       [user_id |-> "u1", group_id |-> "g2", status |-> "accepted"],
       [user_id |-> "u2", group_id |-> "g1", status |-> "pending"],
       [user_id |-> "u2", group_id |-> "g2", status |-> "accepted"],
       [user_id |-> "u3", group_id |-> "g1", status |-> "pending"] >>

\* the active rows of location_shares: "u1" shares with g1 every second and
\* with g2 without a row; the row of "u2" has frequency 0
LocationShares ==
    << [user_id |-> "u1", group_id |-> "g1", frequency |-> 1],
       [user_id |-> "u2", group_id |-> "g2", frequency |-> 0] >>

\* the groupIds a request body may carry; the empty list stands for none
GroupIdLists == {<< >>, <<"g1">>, <<"g2">>, <<"g1", "g2">>}

StatusOk == 200
StatusAccepted == 202
StatusForbidden == 403
StatusNotFound == 404

SeqHas(q, x) == \E i \in 1..Len(q) : q[i] = x

\* db.group_members.findMany({user_id, status: {not: 'pending'}}).map(m => m.group_id)
RECURSIVE MembershipsFrom(_, _)
MembershipsFrom(rows, userId) ==
    IF rows = << >> THEN << >>
    ELSE (IF Head(rows).user_id = userId /\ Head(rows).status # "pending"
          THEN <<Head(rows).group_id>> ELSE << >>) \o MembershipsFrom(Tail(rows), userId)

Memberships(userId) == MembershipsFrom(GroupMembers, userId)

\* list.filter(id => keep(id)) for the two filters of the handlers
RECURSIVE FilterIn(_, _)
FilterIn(list, allowed) ==
    IF list = << >> THEN << >>
    ELSE (IF SeqHas(allowed, Head(list)) THEN <<Head(list)>> ELSE << >>)
         \o FilterIn(Tail(list), allowed)

\* variant: no requested group is ever found invalid
FilterNotIn_None(list, excluded) == << >>

RECURSIVE FilterNotIn(_, _)
FilterNotIn(list, excluded) ==
    IF list = << >> THEN << >>
    ELSE (IF ~SeqHas(excluded, Head(list)) THEN <<Head(list)>> ELSE << >>)
         \o FilterNotIn(Tail(list), excluded)

\* api_keys: {some: {revoked_at: null}}
HasActiveApiKey(groupId) == \E k \in ApiKeys : KeyGroup[k] = groupId /\ k \notin revoked

RECURSIVE WithActiveApiKey(_)
WithActiveApiKey(groupIds) ==
    IF groupIds = << >> THEN << >>
    ELSE (IF HasActiveApiKey(Head(groupIds)) THEN <<Head(groupIds)>> ELSE << >>)
         \o WithActiveApiKey(Tail(groupIds))

\* findAuthorizedGroupsForUser(userId)
findAuthorizedGroupsForUser(userId) == WithActiveApiKey(Memberships(userId))

\* activeShares.find(s => s.group_id === groupId)?.frequency ?? 30
ShareFrequency(userId, groupId) ==
    IF \E i \in 1..Len(LocationShares) :
          LocationShares[i].user_id = userId /\ LocationShares[i].group_id = groupId
    THEN LocationShares[CHOOSE i \in 1..Len(LocationShares) :
                          LocationShares[i].user_id = userId
                          /\ LocationShares[i].group_id = groupId].frequency
    ELSE DefaultFrequencySeconds

\* the fields of the batcher, as one value
Batcher == [Q |-> groupQueues, P |-> lastPublished, GF |-> groupFrequencies,
            F |-> frequencies, timers |-> timers, intervalTimers |-> intervalTimers]

\* ensureIntervalTimer(frequencyMs) on the batcher value B
ensureIntervalTimerOn(B, frequencyMs, t) ==
    IF MapHas(B.intervalTimers, frequencyMs)
    THEN [B |-> B, deliv |-> << >>, threw |-> FALSE, flushes |-> << >>]
    ELSE Only({ [B |-> [B EXCEPT !.Q = r.Q, !.P = r.P,
                                 !.timers = MapSet(@, id, [frequency |-> frequencyMs,
                                                           due |-> t + frequencyMs]),
                                 !.intervalTimers = IF r.threw THEN @
                                                    ELSE MapSet(@, frequencyMs, id)],
                 deliv |-> r.deliv, threw |-> r.threw, flushes |-> r.flushes]
                : id \in {SeqMax(DOMAIN B.timers) + 1},
                  r \in {processQueuesAtFrequency(B.GF, B.Q, B.P, frequencyMs, t)} })

\* queueLocationUpdate(groupId, payload, userId, deviceId, frequencySeconds) on
\* the batcher value B
queueLocationUpdateOn(B, groupId, payload, userId, deviceId, frequencySeconds, t) ==
    Only({ ensureIntervalTimerOn(
              [B EXCEPT !.Q = MapSet(Q0, groupId,
                                     Coalesce(Q0[groupId], payload, userId, deviceId, t)),
                        !.P = IF MapHas(B.Q, groupId) THEN @ ELSE MapSet(@, groupId, Epoch),
                        !.GF = OrdSet(@, groupId, frequencyMs),
                        !.F = @ \cup {frequencyMs}],
              frequencyMs, t)
           : Q0 \in {IF MapHas(B.Q, groupId) THEN B.Q ELSE MapSet(B.Q, groupId, << >>)},
             frequencyMs \in {SecondsToMs(frequencySeconds)} })

\* one call of a handler to locationBatcher.queueLocationUpdate, with its history
QueueStep(B, H, groupId, payload, userId, deviceId, frequencySeconds, t) ==
    Only({ [B |-> r.B, H |-> HistFlushes(H1, r.B.GF, r.flushes, FALSE),
            deliv |-> r.deliv, threw |-> r.threw, flushes |-> FlushInfo(r.flushes, H1),
            queued |-> <<[groupId |-> groupId, frequency |-> frequencySeconds]>>]
           : r \in {queueLocationUpdateOn(B, groupId, payload, userId, deviceId,
                                          frequencySeconds, t)},
             H1 \in {[H EXCEPT ![groupId] =
                        HistEnqueue(@, <<userId, deviceId>>, payload,
                                    SecondsToMs(frequencySeconds), t)]} })

\* for (const groupId of targetGroupIds) locationBatcher.queueLocationUpdate(...):
\* an exception of a call leaves the loop
RECURSIVE QueueEach(_, _, _, _, _, _, _)
QueueEach(B, H, targetGroupIds, payload, userId, deviceId, t) ==
    IF targetGroupIds = << >>
    THEN [B |-> B, H |-> H, deliv |-> << >>, threw |-> FALSE, flushes |-> << >>,
          queued |-> << >>]
    ELSE Only({ IF s.threw THEN s
                ELSE Only({ [B |-> rest.B, H |-> rest.H, deliv |-> s.deliv \o rest.deliv,
                             threw |-> rest.threw, flushes |-> s.flushes \o rest.flushes,
                             queued |-> s.queued \o rest.queued]
                            : rest \in {QueueEach(s.B, s.H, Tail(targetGroupIds), payload,
                                                  userId, deviceId, t)} })
                : s \in {QueueStep(B, H, Head(targetGroupIds), payload, userId, deviceId,
                                   ShareFrequency(userId, Head(targetGroupIds)), t)} })

\* the batcher after a handler ran
SetBatcher(B) ==
    /\ groupQueues' = B.Q
    /\ lastPublished' = B.P
    /\ groupFrequencies' = B.GF
    /\ frequencies' = B.F
    /\ timers' = B.timers
    /\ intervalTimers' = B.intervalTimers

\* what a handler leaves behind when it makes no call to the batcher
NothingQueued == [B |-> Batcher, H |-> hist, deliv |-> << >>, threw |-> FALSE,
                  flushes |-> << >>, queued |-> << >>]

NothingPublished == [deliv |-> << >>, threw |-> FALSE, calls |-> << >>, groups |-> << >>]

\* one call of a handler to locationBus.publishLocationToGroups(groupIds, payload)
PublishStep(groupIds, payload) ==
    Only({ [deliv |-> r.deliv, threw |-> r.threw, calls |-> r.calls, groups |-> groupIds]
           : r \in {publishLocationToGroups(groupIds, payload)} })

\* the row db.locations.create inserts
LocationRow(groupId, deviceId, payload) ==
    [group_id |-> groupId, device_id |-> deviceId, latitude |-> payload.latitude]

\* the outcome of one request: code is the status the handler gave the reply
\* (200 while it gave none), threw says that the handler ended by an exception
Handled(route, userId, deviceId, payload, groupIds, targets, code, threw, row, p, q) ==
    /\ SetBatcher(q.B)
    /\ hist' = q.H
    /\ locations' = locations \o row
    /\ delivered' = p.deliv \o q.deliv
    /\ call' = [op |-> "ingest", route |-> route, userId |-> userId, deviceId |-> deviceId,
                payload |-> payload, groupIds |-> groupIds, targets |-> targets,
                code |-> code, threw |-> threw, stored |-> Len(row),
                published |-> p.groups, calls |-> p.calls, queued |-> q.queued,
                flushes |-> q.flushes,
                before |-> [Q |-> groupQueues, P |-> lastPublished,
                            GF |-> groupFrequencies, timers |-> timers]]
    /\ enqCount' = enqCount + 1
    /\ opCount' = opCount + 1
    /\ UNCHANGED <<busVars, now, crashed, scope, revoked, conns>>

\* variant: the handler queues the update before it creates the record
PostLocations_QueueFirst(userId, deviceId, groupIds, dbFails) ==
    /\ ~crashed
    /\ opCount < scope.ops
    /\ enqCount < scope.enq
    /\ userId \in scope.users /\ groupIds \in scope.lists /\ dbFails \in scope.fails
    /\ \E payload \in {Payload(deviceId, enqCount + 1)},
          validGroupIds \in {IF Len(groupIds) > 0
                             THEN FilterIn(Memberships(userId), groupIds)
                             ELSE Memberships(userId)} :
          IF \/ Len(groupIds) > 0 /\ Len(FilterNotIn(groupIds, validGroupIds)) > 0
             \/ Len(validGroupIds) = 0
             \/ Len(Memberships(userId)) = 0
          THEN Handled("batched", userId, deviceId, payload, groupIds, << >>,
                       StatusForbidden, TRUE, << >>, NothingPublished, NothingQueued)
          ELSE \E q \in {QueueEach(Batcher, hist, validGroupIds, payload, userId,
                                   deviceId, now)} :
                  Handled("batched", userId, deviceId, payload, groupIds, validGroupIds,
                          IF q.threw \/ dbFails THEN StatusOk ELSE StatusAccepted,
                          q.threw \/ dbFails,
                          IF q.threw \/ dbFails THEN << >>
                          ELSE <<LocationRow(Head(Memberships(userId)), deviceId, payload)>>,
                          NothingPublished, q)

\* POST /locations of the batching routes (part_016:74-256)
PostLocations(userId, deviceId, groupIds, dbFails) ==
    /\ ~crashed
    /\ opCount < scope.ops
    /\ enqCount < scope.enq
    /\ userId \in scope.users /\ groupIds \in scope.lists /\ dbFails \in scope.fails
    /\ \E payload \in {Payload(deviceId, enqCount + 1)},
          validGroupIds \in {IF Len(groupIds) > 0
                             THEN FilterIn(Memberships(userId), groupIds)
                             ELSE Memberships(userId)} :
          IF \/ Len(groupIds) > 0 /\ Len(FilterNotIn(groupIds, validGroupIds)) > 0
             \/ Len(validGroupIds) = 0
             \/ Len(Memberships(userId)) = 0
          THEN Handled("batched", userId, deviceId, payload, groupIds, << >>,
                       StatusForbidden, TRUE, << >>, NothingPublished, NothingQueued)
          ELSE IF dbFails
          THEN Handled("batched", userId, deviceId, payload, groupIds, validGroupIds,
                       StatusOk, TRUE, << >>, NothingPublished, NothingQueued)
          ELSE \E q \in {QueueEach(Batcher, hist, validGroupIds, payload, userId,
                                   deviceId, now)} :
                  Handled("batched", userId, deviceId, payload, groupIds, validGroupIds,
                          IF q.threw THEN StatusOk ELSE StatusAccepted, q.threw,
                          <<LocationRow(Head(Memberships(userId)), deviceId, payload)>>,
                          NothingPublished, q)

\* POST /locations of the publishing routes (routes/public/locations.ts:65-181)
PostLocationsDirect(userId, deviceId, dbFails) ==
    /\ ~crashed
    /\ opCount < scope.ops
    /\ enqCount < scope.enq
    /\ userId \in scope.users /\ dbFails \in scope.fails
    /\ \E payload \in {Payload(deviceId, enqCount + 1)},
          authorizedGroups \in {findAuthorizedGroupsForUser(userId)} :
          IF Len(authorizedGroups) = 0 \/ Len(Memberships(userId)) = 0
          THEN Handled("direct", userId, deviceId, payload, << >>, << >>,
                       StatusForbidden, TRUE, << >>, NothingPublished, NothingQueued)
          ELSE IF dbFails
          THEN Handled("direct", userId, deviceId, payload, << >>, authorizedGroups,
                       StatusOk, TRUE, << >>, NothingPublished, NothingQueued)
          ELSE \E p \in {PublishStep(authorizedGroups, payload)} :
                  Handled("direct", userId, deviceId, payload, << >>, authorizedGroups,
                          IF p.threw THEN StatusOk ELSE StatusAccepted, p.threw,
                          <<LocationRow(Head(Memberships(userId)), deviceId, payload)>>,
                          p, NothingQueued)

\* POST /locations of the internal routes (part_009:74-178); shareGroup is the
\* group of the share link the token names, or NoValue when there is none
PostInternalLocations(shareGroup, deviceId, dbFails) ==
    /\ ~crashed
    /\ opCount < scope.ops
    /\ enqCount < scope.enq
    /\ shareGroup \in scope.groups \cup {NoValue} /\ dbFails \in scope.fails
    /\ \E payload \in {Payload(deviceId, enqCount + 1)} :
          IF shareGroup = NoValue
          THEN Handled("internal", deviceId, deviceId, payload, << >>, << >>,
                       StatusNotFound, FALSE, << >>, NothingPublished, NothingQueued)
          ELSE IF dbFails
          THEN Handled("internal", deviceId, deviceId, payload, << >>, <<shareGroup>>,
                       StatusOk, TRUE, << >>, NothingPublished, NothingQueued)
          ELSE \E p \in {PublishStep(<<shareGroup>>, payload)} :
               \E q \in {IF p.threw THEN NothingQueued
                         ELSE QueueStep(Batcher, hist, shareGroup, payload, deviceId,
                                        deviceId, DefaultFrequencySeconds, now)} :
                  Handled("internal", deviceId, deviceId, payload, << >>, <<shareGroup>>,
                          IF p.threw \/ q.threw THEN StatusOk ELSE StatusAccepted,
                          p.threw \/ q.threw,
                          <<LocationRow(shareGroup, deviceId, payload)>>, p, q)

(***************************************************************************)
(* Streaming: the GET /stream handler and openLocationStream                *)
(***************************************************************************)
\* the closure (event) => send(event.type, event.data) of connection c
ListenerOf(c) == "listener" \o ToString(c)

\* a GET /stream request arrives with API key apiKeyId and the handler awaits
\* requireApiKey (part_016:346-347)
GetStream(apiKeyId) ==
    /\ ~crashed
    /\ opCount < scope.ops
    /\ Len(conns) < scope.conns
    /\ apiKeyId \in scope.keys
    /\ conns' = Append(conns, [apiKeyId |-> apiKeyId, groupId |-> KeyGroup[apiKeyId],
                               phase |-> "authenticating", closed |-> FALSE,
                               reached |-> FALSE, cancels |-> 0, heartbeat |-> FALSE,
                               onClose |-> FALSE])
    /\ delivered' = << >>
    /\ call' = [op |-> "stream", conn |-> Len(conns) + 1]
    /\ opCount' = opCount + 1
    /\ UNCHANGED <<busVars, batcherVars, now, crashed, hist, enqCount, scope, dbVars>>

\* requireApiKey finds no active key: the request is refused
RefuseStream(c) ==
    /\ ~crashed
    /\ c \in 1..Len(conns)
    /\ conns[c].phase = "authenticating"
    /\ conns[c].apiKeyId \in revoked
    /\ conns' = [conns EXCEPT ![c].phase = "refused"]
    /\ delivered' = << >>
    /\ call' = [op |-> "refuse", conn |-> c]
    /\ UNCHANGED <<busVars, batcherVars, now, crashed, hist, enqCount, opCount, scope, dbVars>>

\* requireApiKey resolves and openLocationStream(request, reply, apiKey.group_id)
\* runs, whether or not the client is still there.  It calls
\* locationBus.subscribe(groupId, listener): the closure arrives as apiKeyId
\* and listener is undefined, so subscribe records the closure in
\* activeSubscribers and subscriberDetails (bus.ts:87-97) and this.on(groupId,
\* undefined) raises (bus.ts:100).  The exception leaves openLocationStream
\* before setInterval and res.on('close') (part_016:388-397).
OpenLocationStream(c) ==
    /\ ~crashed
    /\ c \in 1..Len(conns)
    /\ conns[c].phase = "authenticating"
    /\ conns[c].apiKeyId \notin revoked
    /\ \E groupId \in {conns[c].groupId}, apiKeyId \in {ListenerOf(c)} :
          /\ activeSubscribers' =
               MapSet(activeSubscribers, groupId,
                      (IF MapHas(activeSubscribers, groupId)
                       THEN activeSubscribers[groupId] ELSE {}) \cup {apiKeyId})
          /\ subscriberDetails' = MapSet(subscriberDetails, apiKeyId,
                                         [apiKeyId |-> apiKeyId, groupId |-> groupId])
    /\ conns' = [conns EXCEPT ![c].phase = "hijacked", ![c].reached = TRUE]
    /\ delivered' = << >>
    /\ call' = [op |-> "open", conn |-> c, threw |-> TRUE]
    /\ UNCHANGED <<listeners, subs, batcherVars, now, crashed, hist, enqCount, opCount,
                   scope, dbVars>>

\* the client goes away: 'close' is emitted on the response, and the listener
\* of part_016:393-397 runs if openLocationStream got as far as registering it
ClientClose(c) ==
    /\ ~crashed
    /\ opCount < scope.ops
    /\ c \in 1..Len(conns)
    /\ ~conns[c].closed
    /\ conns[c].phase # "refused"
    /\ conns' = [conns EXCEPT ![c].closed = TRUE,
                              ![c].heartbeat = IF conns[c].onClose THEN FALSE ELSE @,
                              ![c].cancels = IF conns[c].onClose THEN @ + 1 ELSE @]
    /\ delivered' = << >>
    /\ call' = [op |-> "close", conn |-> c]
    /\ opCount' = opCount + 1
    /\ UNCHANGED <<busVars, batcherVars, now, crashed, hist, enqCount, scope, dbVars>>

\* the payload of a direct publish, and the list of groups it goes to
DirectPayload == Payload("d1", 0)

AllGroups == <<"g1", "g2">>

Init == InitState /\ scope = FullScope /\ revoked = {}

InitHistory == InitState /\ scope = HistoryScope /\ revoked = {}

InitTiming == InitState /\ scope = TimingScope /\ revoked = {}

\* the sink of a connection returns, or may raise (a failing connection)
SinkKinds(k) == IF k = "k2" THEN BOOLEAN ELSE {FALSE}

Next ==
    \/ \E g \in Groups, k \in ApiKeys : \E th \in SinkKinds(k) : Subscribe(g, k, th)
    \/ \E sid \in 1..MaxSubs : Cancel(sid)
    \/ PublishToGroups(AllGroups, DirectPayload)
    \/ \E g \in Groups, u \in Users, d \in Devices, f \in Freqs :
         QueueLocationUpdate(g, Payload(d, enqCount + 1), u, d, f)
    \/ \E id \in DOMAIN timers : TimerTick(id)
    \/ Advance
    \/ Shutdown

Spec == Init /\ [][Next]_vars

SpecHistory == InitHistory /\ [][Next]_vars

\* the scheduler alone, one group, for the claims about flush times
NextTiming ==
    \/ \E g \in Groups, u \in Users, d \in Devices, f \in Freqs :
         QueueLocationUpdate(g, Payload(d, enqCount + 1), u, d, f)
    \/ \E id \in DOMAIN timers : TimerTick(id)
    \/ Advance

SpecTiming == InitTiming /\ [][NextTiming]_vars

\* api_keys.revoked_at: every key is active, or the key of g2 was revoked
InitIngest == InitState /\ scope = IngestScope /\ revoked \in {{}, {"k3"}}

\* the handlers of the three POST /locations routes, the stream subscribers
\* and the timers of the scheduler
NextIngest ==
    \/ \E g \in Groups, k \in ApiKeys : \E th \in SinkKinds(k) : Subscribe(g, k, th)
    \/ \E u \in Submitters, d \in Devices, gs \in GroupIdLists, f \in BOOLEAN :
         PostLocations(u, d, gs, f)
    \/ \E u \in Submitters, d \in Devices, f \in BOOLEAN : PostLocationsDirect(u, d, f)
    \/ \E g \in Groups \cup {NoValue}, d \in Devices, f \in BOOLEAN :
         PostInternalLocations(g, d, f)
    \/ \E id \in DOMAIN timers : TimerTick(id)
    \/ Advance

SpecIngest == InitIngest /\ [][NextIngest]_vars

InitSequence == InitState /\ scope = SequenceScope /\ revoked = {}

\* the batching routes alone
NextSequence ==
    \/ \E g \in Groups, k \in ApiKeys : \E th \in SinkKinds(k) : Subscribe(g, k, th)
    \/ \E u \in Submitters, d \in Devices, gs \in GroupIdLists, f \in BOOLEAN :
         PostLocations(u, d, gs, f)
    \/ \E id \in DOMAIN timers : TimerTick(id)
    \/ Advance

SpecSequence == InitSequence /\ [][NextSequence]_vars

InitStream == InitState /\ scope = StreamScope /\ revoked \in {{}, {"k3"}}

\* stream connections, and publishes to the groups they asked for
NextStream ==
    \/ \E k \in ApiKeys : GetStream(k)
    \/ \E c \in 1..MaxConns : RefuseStream(c)
    \/ \E c \in 1..MaxConns : OpenLocationStream(c)
    \/ \E c \in 1..MaxConns : ClientClose(c)
    \/ PublishToGroups(AllGroups, DirectPayload)

SpecStream == InitStream /\ [][NextStream]_vars

\* (userId, deviceId) as the routes pass them: deviceId is any string of the
\* request body (a colon included), the batching route passes the token's
\* user with it (part_016:243-249) and the internal route passes deviceId as
\* userId too (part_009:166-172)
KeyPairs == {<<"u1", "d1">>, <<"u1", "x:u1:x">>, <<"u1:x", "u1:x">>}

InitKeys == InitState /\ scope = KeysScope /\ revoked = {}

NextKeys ==
    \/ \E g \in Groups, pair \in KeyPairs, f \in Freqs :
         QueueLocationUpdate(g, Payload(pair[2], enqCount + 1), pair[1], pair[2], f)
    \/ \E id \in DOMAIN timers : TimerTick(id)
    \/ Advance

SpecKeys == InitKeys /\ [][NextKeys]_vars

InitBuckets == InitState /\ scope = BucketsScope /\ revoked = {}

\* the scheduler's calls and timers on two groups, one user submitting
NextBuckets ==
    \/ \E g \in Groups, k \in ApiKeys : \E th \in SinkKinds(k) : Subscribe(g, k, th)
    \/ \E g \in Groups, d \in Devices, f \in Freqs :
         QueueLocationUpdate(g, Payload(d, enqCount + 1), "u1", d, f)
    \/ \E g \in Groups, f \in Freqs : SetGroupFrequency(g, f)
    \/ \E id \in DOMAIN timers : TimerTick(id)
    \/ Advance

SpecBuckets == InitBuckets /\ [][NextBuckets]_vars

InitReentrant == InitState /\ scope = ReentrantScope /\ revoked = {}

\* the producing sink subscribes once the bucket of frequencySeconds exists,
\* so that the queueLocationUpdate of its callback finds the timer recorded
\* and ensureIntervalTimer returns at once (part_020:89-91)
SubscribeProducer(groupId, apiKeyId, frequencySeconds) ==
    /\ apiKeyId \in Producers
    /\ MapHas(intervalTimers, SecondsToMs(frequencySeconds))
    /\ Subscribe(groupId, apiKeyId, FALSE)

\* one bucket, submissions to both groups, the producing sink and the timer
NextReentrant ==
    \/ \E g \in Groups, k \in ApiKeys : SubscribeProducer(g, k, 1)
    \/ \E g \in Groups, u \in Users, d \in Devices :
         QueueLocationUpdate(g, Payload(d, enqCount + 1), u, d, 1)
    \/ \E id \in DOMAIN timers : TimerTick(id)
    \/ Advance

SpecReentrant == InitReentrant /\ [][NextReentrant]_vars

InitLive == InitState /\ scope = LiveScope /\ revoked = {}

\* the observed window ends two longest periods after the last submission,
\* long enough for the bucket of any frequency to tick twice
LiveQuietSeconds == 2 * SeqMax(Freqs)

NextLive ==
    \/ \E g \in Groups, k \in ApiKeys : \E th \in SinkKinds(k) : Subscribe(g, k, th)
    \/ /\ now + SecondsToMs(LiveQuietSeconds) <= StartMs + SecondsToMs(scope.adv)
       /\ \E g \in Groups, u \in Users, d \in Devices, f \in Freqs :
            QueueLocationUpdate(g, Payload(d, enqCount + 1), u, d, f)
    \/ \E id \in DOMAIN timers : TimerTick(id)
    \/ Advance

\* setInterval: a timer that is due fires; time passes
FairTicks == WF_vars(\E id \in DOMAIN timers : TimerTick(id)) /\ WF_vars(Advance)

SpecLive == InitLive /\ [][NextLive]_vars /\ FairTicks

(***************************************************************************)
(* Properties                                                              *)
(***************************************************************************)
Pair(update) == <<update.userId, update.deviceId>>

\* the sinks that were subscribed to groupId and whose cancel function was not called
LiveSinks(groupId) ==
    {sid \in 1..Len(subs) : subs[sid].groupId = groupId /\ ~subs[sid].cancelled}

SeqToSet(q) == {q[i] : i \in 1..Len(q)}

\* the flushes made by the last action (by a timer tick or by a bootstrap pass)
LastFlushes ==
    IF call.op \in {"queue", "tick", "setFrequency"} THEN call.flushes ELSE << >>

\* C1: in every reachable state every group's pending queue holds at most one
\* entry per (userId, deviceId), and the payload of that entry is the payload
\* of the most recent queueLocationUpdate for that (group, userId, deviceId)
\* since the group's queue was last cleared by a flush.
C1_OnePendingPerDevice ==
    \A g \in DOMAIN groupQueues :
       LET q == groupQueues[g]
       IN /\ \A i, j \in 1..Len(q) : Pair(q[i]) = Pair(q[j]) => i = j
          /\ \A i \in 1..Len(q) :
                /\ MapHas(hist[g].latest, Pair(q[i]))
                /\ q[i].payload = hist[g].latest[Pair(q[i])]

\* a pair was enqueued twice with no flush in between and its entry is pending
C1_Witness ==
    \E g \in DOMAIN groupQueues : \E i \in 1..Len(groupQueues[g]) :
       /\ MapHas(hist[g].count, Pair(groupQueues[g][i]))
       /\ hist[g].count[Pair(groupQueues[g][i])] >= 2

\* C2 (as stated): over a burst of updates for one (group, userId, deviceId)
\* that ends with the tick that flushes the group, a subscriber that is live
\* on the group for the whole burst receives exactly one event for the pair:
\* never a second one, and exactly one once the tick has flushed.  Stated for
\* the executions in which no sink raises.
NoSinkThrows == \A sid \in 1..Len(subs) : ~subs[sid].throws

C3_NoCrossGroupDelivery ==
    /\ \A i \in 1..Len(delivered) :
          subs[delivered[i].sid].groupId = delivered[i].event.data.groupId
    /\ call.op = "publish" =>
          \A i \in 1..Len(call.calls) : \A a \in 1..Len(call.calls[i].sids) :
             subs[call.calls[i].sids[a]].groupId = call.calls[i].groupId
    /\ \A k \in 1..Len(LastFlushes) : \A i \in 1..Len(LastFlushes[k].calls) :
          \A a \in 1..Len(LastFlushes[k].calls[i].sids) :
             subs[LastFlushes[k].calls[i].sids[a]].groupId = LastFlushes[k].groupId

\* one action delivers to a sink of one group while another group has a live sink
C3_Witness ==
    /\ Len(delivered) >= 1
    /\ \E g \in Groups : g # delivered[1].event.data.groupId /\ LiveSinks(g) # {}

\* the publishLocation calls made by the last action, each with the group it
\* published to and the sinks it invoked
LastCalls ==
    IF call.op = "publish"
    THEN [i \in 1..Len(call.calls) |->
            [groupId |-> call.calls[i].groupId, sids |-> SeqToSet(call.calls[i].sids)]]
    ELSE IF call.op \in {"queue", "tick"}
         THEN LET F == call.flushes
                  n == Len(F)
                  flat[k \in 0..n] ==
                     IF k = 0 THEN << >>
                     ELSE flat[k - 1] \o
                          [i \in 1..Len(F[k].calls) |->
                             [groupId |-> F[k].groupId, sids |-> SeqToSet(F[k].calls[i].sids)]]
              IN flat[n]
         ELSE << >>

\* the groups the last action set out to publish to
LastTargets ==
    IF call.op = "publish" THEN SeqToSet(call.groupIds)
    ELSE {LastFlushes[k].groupId : k \in 1..Len(LastFlushes)}

LastThrew == call.op \in {"publish", "queue", "tick"} /\ call.threw

\* C4 (as stated): every sink registered for a group (subscribed, not
\* cancelled) when a publish to the group begins is invoked with the event.
\* Stated for the publishes in which no sink raises.
C4_EveryRegisteredSinkReceives ==
    ~LastThrew =>
       /\ \A g \in LastTargets : LiveSinks(g) # {} =>
             \E i \in 1..Len(LastCalls) : LastCalls[i].groupId = g
       /\ \A i \in 1..Len(LastCalls) : LiveSinks(LastCalls[i].groupId) \subseteq LastCalls[i].sids

\* C5 (as stated): when the same apiKeyId subscribed to the same group again,
\* the sink of the earlier subscription is never invoked afterwards: every
\* sink that is invoked is the latest subscription of its (group, apiKeyId).
C5_ResubscribeSupersedes ==
    \A i \in 1..Len(delivered) :
       ~\E later \in (delivered[i].sid + 1)..Len(subs) :
           /\ subs[later].groupId = subs[delivered[i].sid].groupId
           /\ subs[later].apiKeyId = subs[delivered[i].sid].apiKeyId

\* C6: a sink whose cancel function has returned is not invoked by any later
\* publishLocation, publishLocationToGroups or scheduler flush.
C6_UnsubscribeStopsDelivery ==
    \A i \in 1..Len(delivered) : ~subs[delivered[i].sid].cancelled

\* a group with a cancelled sink is published to, and a live sink of it is invoked
C6_Witness ==
    \E i \in 1..Len(delivered) : \E sid \in 1..Len(subs) :
       /\ subs[sid].cancelled
       /\ subs[sid].groupId = subs[delivered[i].sid].groupId

\* C7 (as stated): when a sink raises, every other sink on the emitter's
\* list of the group still receives the event, every other group of the
\* batch that has subscribers is still published to, and every flush of the
\* pass still publishes all its pending entries.
C7_SinkFailureIsolation ==
    LastThrew =>
       /\ \A i \in 1..Len(LastCalls) :
             SeqToSet(listeners[LastCalls[i].groupId]) \subseteq LastCalls[i].sids
       /\ call.op = "publish" =>
             \A g \in SeqToSet(call.groupIds) : hasSubscribers(g) =>
                \E i \in 1..Len(LastCalls) : LastCalls[i].groupId = g
       /\ \A k \in 1..Len(LastFlushes) :
             {Pair(LastFlushes[k].calls[i]) : i \in 1..Len(LastFlushes[k].calls)}
                = DOMAIN LastFlushes[k].pending

\* C8 (as stated): any two consecutive flushes that publish a group's pending
\* updates are at least F apart, F being the group's frequency at the later
\* flush; bootstrap passes included.
C8_FlushRateLimit ==
    \A g \in Groups :
       Len(hist[g].flushAt) = 2 =>
          hist[g].flushAt[2].at - hist[g].flushAt[1].at >= hist[g].flushAt[2].frequency

\* C9 (as stated): an update enqueued at t0 with frequency F is passed to the
\* bus, itself or a newer update of the same (userId, deviceId), no later
\* than t0 + 2F: no pending obligation is ever past its deadline.
C9_FlushDeadline ==
    \A g \in Groups : \A pair \in DOMAIN hist[g].deadline : now <= hist[g].deadline[pair]

\* at the last action, a queueLocationUpdate: had at least F elapsed since the
\* group's last flush?
CallDue == call.elapsed >= call.frequency

\* did the last action, a queueLocationUpdate, pass its own update to the bus?
OwnUpdatePublished ==
    \E k \in 1..Len(call.flushes) : \E i \in 1..Len(call.flushes[k].calls) :
       /\ call.flushes[k].groupId = call.groupId
       /\ Pair(call.flushes[k].calls[i]) = <<call.userId, call.deviceId>>
       /\ call.flushes[k].calls[i].payload = call.payload

\* is the update of the last action, a queueLocationUpdate, still pending?
OwnUpdatePending ==
    /\ MapHas(groupQueues, call.groupId)
    /\ \E i \in 1..Len(groupQueues[call.groupId]) :
          /\ Pair(groupQueues[call.groupId][i]) = <<call.userId, call.deviceId>>
          /\ groupQueues[call.groupId][i].payload = call.payload

DeliveriesTo(sid) == Cardinality({i \in 1..Len(delivered) : delivered[i].sid = sid})

\* the last action was a POST /locations request
Ingested == call.op = "ingest"

\* the request was answered 202
Accepted == Ingested /\ ~call.threw /\ call.code = StatusAccepted

\* C11 (as stated): no ingestion endpoint publishes to the bus directly: a
\* POST /locations request makes no publishLocation call of its own, and the
\* request hands at most one location event to each sink.
C11_OnlyFlushesPublish ==
    Ingested =>
       /\ call.published = << >>
       /\ \A sid \in 1..Len(subs) : DeliveriesTo(sid) <= 1

\* the flushes made by the last request or timer tick
HandlerFlushes == IF call.op \in {"ingest", "tick"} THEN call.flushes ELSE << >>

\* C12 (as stated): with a subscriber live on a group, every accepted
\* submission for a device reaches the subscriber as its own location event:
\* an event that a flush hands to a sink that was subscribed before the
\* device's submissions began stands for exactly one submission, so N
\* submissions give the sink N events.
C12_EverySubmissionIsItsOwnEvent ==
    \A k \in 1..Len(HandlerFlushes) : \A i \in 1..Len(HandlerFlushes[k].calls) :
       LET f == HandlerFlushes[k]
           c == f.calls[i]
           burst == hist[f.groupId].burst
       IN \A a \in 1..Len(c.sids) :
             (MapHas(burst, Pair(c)) /\ c.sids[a] <= burst[Pair(c)].base)
                => f.count[Pair(c)] = 1

\* the request resolved its target groups and created no record: the call
\* of db.locations.create failed
StorageFailed == Ingested /\ Len(call.targets) > 0 /\ call.stored = 0

\* C13: when db.locations.create fails the handler ends by an exception with
\* no status of its own (a server error), it has called neither
\* queueLocationUpdate nor publishLocationToGroups, no sink was invoked, and
\* the scheduler's queues, stamps, frequencies and timers are what they were.
C13_StorageFailureQueuesNothing ==
    StorageFailed =>
       /\ call.threw /\ call.code = StatusOk
       /\ call.queued = << >> /\ call.published = << >> /\ call.flushes = << >>
       /\ delivered = << >>
       /\ call.before = [Q |-> groupQueues, P |-> lastPublished, GF |-> groupFrequencies,
                         timers |-> timers]

\* the record of a submission could not be stored while one of its target
\* groups had a live sink
C13_Witness ==
    /\ StorageFailed
    /\ \E i \in 1..Len(call.targets) : LiveSinks(call.targets[i]) # {}

\* the submitting user has no membership that is not pending, or asked for a
\* group that is not such a membership
Unresolvable ==
    /\ Ingested
    /\ call.route \in {"batched", "direct"}
    /\ \/ Len(Memberships(call.userId)) = 0
       \/ \E i \in 1..Len(call.groupIds) : ~SeqHas(Memberships(call.userId), call.groupIds[i])

\* C14: a request whose target groups cannot be resolved is rejected: the
\* handler sets status 403 on the reply and ends by an exception, it stores
\* no record, calls queueLocationUpdate and publishLocationToGroups for no
\* group (the valid ones among the requested groups included), and the
\* scheduler is what it was.
C14_UnresolvableIsRejected ==
    Unresolvable =>
       /\ call.threw /\ call.code = StatusForbidden
       /\ call.stored = 0
       /\ call.queued = << >> /\ call.published = << >> /\ delivered = << >>
       /\ call.before = [Q |-> groupQueues, P |-> lastPublished, GF |-> groupFrequencies,
                         timers |-> timers]

\* a request names a group the user belongs to together with one the user
\* does not, while the first has a live sink
C14_Witness ==
    /\ Unresolvable
    /\ \E i \in 1..Len(call.groupIds) :
          /\ SeqHas(Memberships(call.userId), call.groupIds[i])
          /\ LiveSinks(call.groupIds[i]) # {}

\* the groups the request called queueLocationUpdate for, in call order
QueuedGroups == [i \in 1..Len(call.queued) |-> call.queued[i].groupId]

\* C15 (as stated): once the record of a submission is stored, no failure of
\* the publication path makes the request fail: the request is answered 202
\* and, on the batching routes, queueLocationUpdate was called for every
\* target group.
C15_PublishFailureDoesNotFailIngest ==
    (Ingested /\ call.stored = 1) =>
       /\ Accepted
       /\ call.route = "batched" => QueuedGroups = call.targets

\* C16 (as stated): a request answered 202 stored exactly one record and
\* called queueLocationUpdate exactly once for each of its target groups,
\* whether or not the groups have subscribers.
C16_AcceptedIsStoredAndQueued ==
    Accepted =>
       /\ call.stored = 1
       /\ QueuedGroups = call.targets

\* the groups the request queued or published its update to
ReachedGroups == SeqToSet(QueuedGroups) \cup SeqToSet(call.published)

\* the groups the submission may go to: the user's membership is not pending,
\* the group has an API key that is not revoked, and it is among the
\* requested groups when the request names any
EligibleGroups ==
    {g \in Groups : /\ SeqHas(Memberships(call.userId), g)
                    /\ HasActiveApiKey(g)
                    /\ Len(call.groupIds) > 0 => SeqHas(call.groupIds, g)}

\* C17 (as stated): a submission of a user is queued or published only for
\* groups in which the user's membership is not pending and that have an
\* active API key, and an accepted one for all of them.
C17_TargetsAreAuthorizedGroups ==
    (Ingested /\ call.route \in {"batched", "direct"}) =>
       /\ ReachedGroups \subseteq EligibleGroups
       /\ Accepted => ReachedGroups = EligibleGroups

\* every sink invocation of the last action was made by a flush
OnlyFlushed == call.op = "tick" \/ (Ingested /\ call.published = << >>)

\* the payload with the group's id added
WithGroupId(payload, groupId) ==
    [x \in DOMAIN payload \cup {"groupId"} |-> IF x = "groupId" THEN groupId ELSE payload[x]]

\* C18: an event a flush of group G hands to a sink is a location event whose
\* data are the fields of the payload that was enqueued for the pair, with
\* groupId = G added, and G is the group the sink subscribed to.
C18_EventIsPayloadWithGroupId ==
    OnlyFlushed =>
       \A n \in 1..Len(delivered) :
          LET d == delivered[n]
              G == subs[d.sid].groupId
          IN /\ d.event.type = "location"
             /\ d.event.data.groupId = G
             /\ \E k \in 1..Len(HandlerFlushes) : \E i \in 1..Len(HandlerFlushes[k].calls) :
                   LET f == HandlerFlushes[k]
                       c == f.calls[i]
                   IN /\ f.groupId = G
                      /\ \E a \in 1..Len(c.sids) : c.sids[a] = d.sid
                      /\ MapHas(f.pending, Pair(c))
                      /\ d.event.data = WithGroupId(f.pending[Pair(c)], G)

\* one request queues one payload for two groups, and the sinks of both
\* receive it in the flushes the request runs
C18_Witness ==
    /\ Ingested /\ OnlyFlushed
    /\ \E n, m \in 1..Len(delivered) :
          /\ delivered[n].event.data.groupId # delivered[m].event.data.groupId
          /\ delivered[n].event.data.latitude = call.payload.latitude
          /\ delivered[m].event.data.latitude = call.payload.latitude

\* the bus still tracks a subscriber for connection c
Tracked(c) ==
    \/ MapHas(subscriberDetails, ListenerOf(c))
    \/ \E g \in DOMAIN activeSubscribers : ListenerOf(c) \in activeSubscribers[g]

\* C19 (as stated): a stream connection that reached subscribe and has
\* closed had its cancel function called exactly once, its heartbeat timer is
\* stopped, and the bus tracks no subscriber for it.
C19_CleanupOnEveryExit ==
    \A c \in 1..Len(conns) :
       (conns[c].reached /\ conns[c].closed) =>
          /\ conns[c].cancels = 1
          /\ ~conns[c].heartbeat
          /\ ~Tracked(c)

\* C20 (as stated): every queueLocationUpdate call of a POST /locations
\* request passes a frequency above zero, and no timer of the scheduler has
\* an interval of zero or less.
C20_FrequencyIsPositive ==
    /\ Ingested => \A i \in 1..Len(call.queued) : call.queued[i].frequency > 0
    /\ \A id \in DOMAIN timers : timers[id].frequency > 0


\* C21 (as stated): after shutdown() no bucket timer is running and no
\* pending state remains (no queue, no stamp, no frequency assignment), so
\* nothing that was pending is published and no flush fires until a later
\* queueLocationUpdate creates a new bucket.
C21_ShutdownStopsEverything ==
    call.op = "shutdown" =>
       /\ DOMAIN timers = {}
       /\ intervalTimers = EmptyMap
       /\ groupQueues = EmptyMap
       /\ lastPublished = EmptyMap
       /\ groupFrequencies = << >>

\* publishLocation(g, p) for each g of groupIds in order, as a caller's loop:
\* an exception ends the loop
RECURSIVE PublishInOrder(_, _)
PublishInOrder(groupIds, payload) ==
    IF groupIds = << >> THEN [deliv |-> << >>, threw |-> FALSE]
    ELSE Only({ IF r.threw THEN r
                ELSE Only({ [deliv |-> r.deliv \o rest.deliv, threw |-> rest.threw]
                            : rest \in {PublishInOrder(Tail(groupIds), payload)} })
                : r \in {publishLocation(Head(groupIds), payload)} })

\* the batches of at most two groups, repetitions included
GroupBatches == {<< >>} \cup {<<g>> : g \in Groups} \cup {<<g, h>> : g, h \in Groups}

\* C22: in every state of the bus, publishLocationToGroups(groups, p) invokes
\* the same sinks with the same events in the same order, and raises or
\* returns, as publishLocation(g, p) called for each g of groups in order; a
\* group whose subscriber count is zero has no sink invoked and no event
\* built, and a publish leaves the bus state unchanged.
C22_BatchPublishIsTheLoop ==
    /\ \A groupIds \in GroupBatches :
          \E r \in {publishLocationToGroups(groupIds, DirectPayload)},
             l \in {PublishInOrder(groupIds, DirectPayload)} :
             /\ r.deliv = l.deliv
             /\ r.threw = l.threw
             /\ \A i \in 1..Len(r.calls) : getSubscriberCount(r.calls[i].groupId) > 0
             /\ \A i \in 1..Len(r.deliv) :
                   getSubscriberCount(r.deliv[i].event.data.groupId) > 0
    /\ \A g \in Groups :
          getSubscriberCount(g) = 0 => publishLocation(g, DirectPayload).deliv = << >>

\* a batch publish reached the sinks of one group and skipped the other
\* group, which has no subscriber
C22_Witness ==
    /\ call.op = "publish"
    /\ delivered # << >>
    /\ delivered = PublishInOrder(call.groupIds, call.payload).deliv
    /\ \E g \in SeqToSet(call.groupIds) :
          /\ getSubscriberCount(g) = 0
          /\ \A i \in 1..Len(call.calls) : call.calls[i].groupId # g

\* C23 (as stated): two pending entries of different (userId, deviceId) pairs
\* have different flush keys, and a flush that completes publishes exactly
\* one event for every pair that has a pending entry, carrying that pair's
\* pending payload.
C23_OneEventPerPendingPair ==
    /\ \A g \in DOMAIN groupQueues : \A i, j \in 1..Len(groupQueues[g]) :
          UpdateKey(groupQueues[g][i]) = UpdateKey(groupQueues[g][j])
             => Pair(groupQueues[g][i]) = Pair(groupQueues[g][j])
    /\ \A k \in 1..Len(LastFlushes) :
          LastFlushes[k].completed =>
             /\ Len(LastFlushes[k].calls) = Cardinality(DOMAIN LastFlushes[k].pending)
             /\ \A pair \in DOMAIN LastFlushes[k].pending :
                   \E i \in 1..Len(LastFlushes[k].calls) :
                      /\ Pair(LastFlushes[k].calls[i]) = pair
                      /\ LastFlushes[k].calls[i].payload = LastFlushes[k].pending[pair]

\* C24 (as stated): when a flush of a group ends, whether it returned or a
\* sink raised, the group's pending list is empty and its last-flush time is
\* the flush time, so that no later flush publishes the same entries again.
C24_FlushedAtMostOnce ==
    \A k \in 1..Len(LastFlushes) :
       /\ MapHas(groupQueues, LastFlushes[k].groupId)
       /\ groupQueues[LastFlushes[k].groupId] = << >>
       /\ MapHas(lastPublished, LastFlushes[k].groupId)
       /\ lastPublished[LastFlushes[k].groupId] = LastFlushes[k].at

\* groupId's pending list and last-flush time are the same before and after the step
SameQueueAndStamp(groupId) ==
    /\ MapHas(groupQueues', groupId) = MapHas(groupQueues, groupId)
    /\ MapHas(groupQueues, groupId) => groupQueues'[groupId] = groupQueues[groupId]
    /\ MapHas(lastPublished', groupId) = MapHas(lastPublished, groupId)
    /\ MapHas(lastPublished, groupId) => lastPublished'[groupId] = lastPublished[groupId]

\* before the step: groupId is assigned to frequencyMs, at least frequencyMs
\* have elapsed since its last flush, and its pending list is not empty
FlushableAt(groupId, frequencyMs) ==
    /\ OrdHas(groupFrequencies, groupId)
    /\ OrdGet(groupFrequencies, groupId) = frequencyMs
    /\ ~MapHas(lastPublished, groupId) \/ now - lastPublished[groupId] >= frequencyMs
    /\ MapHas(groupQueues, groupId)
    /\ Len(groupQueues[groupId]) > 0

\* C25: a tick of the bucket timer for frequency F changes the pending list
\* and the last-flush time only of groups that are assigned to F at the tick,
\* are due and have a non-empty pending list; those of every other group are
\* unchanged.
C25_TickChangesOnlyItsDueGroups ==
    [][call'.op = "tick" =>
         \A g \in Groups : ~FlushableAt(g, call'.frequency) => SameQueueAndStamp(g)]_vars

PendingIn(groupId) == MapHas(groupQueues, groupId) /\ Len(groupQueues[groupId]) > 0

\* a tick has flushed one group while the other group, which belongs to
\* another bucket, still has its update pending
C25_Witness ==
    /\ call.op = "tick"
    /\ Len(call.flushes) = 1
    /\ \E g \in Groups :
          /\ g # call.flushes[1].groupId
          /\ PendingIn(g)
          /\ OrdGet(groupFrequencies, g) # call.frequency

\* C26 (as stated): at any time at most one recurring timer runs per
\* distinct frequency, whatever queueLocationUpdate and setGroupFrequency
\* calls were made and whether or not a bootstrap flush raised.
C26_OneTimerPerFrequency ==
    \A id1, id2 \in DOMAIN timers :
       timers[id1].frequency = timers[id2].frequency => id1 = id2

\* C27 (as stated): for every group the count that getSubscriberCount
\* reports is the number of live sinks of the group, hasSubscribers says
\* whether there is one, and the group has an entry in the subscriber table
\* exactly while it has at least one live sink.
C27_CountIsLiveSinks ==
    \A g \in Groups :
       /\ getSubscriberCount(g) = Cardinality(LiveSinks(g))
       /\ hasSubscribers(g) <=> LiveSinks(g) # {}
       /\ MapHas(activeSubscribers, g) <=> LiveSinks(g) # {}

\* C28 (as stated): an update enqueued for a group from within a sink
\* callback while a flush of the group is in progress is published by that
\* flush or is still pending when the flush has completed.
C28_EnqueueDuringFlushIsKept ==
    \A k \in 1..Len(LastFlushes) :
       \A n \in 1..Len(LastFlushes[k].during) :
          \/ \E i \in 1..Len(LastFlushes[k].calls) :
                /\ Pair(LastFlushes[k].calls[i]) = Pair(LastFlushes[k].during[n])
                /\ LastFlushes[k].calls[i].payload = LastFlushes[k].during[n].payload
          \/ /\ MapHas(groupQueues, LastFlushes[k].groupId)
             /\ \E i \in 1..Len(groupQueues[LastFlushes[k].groupId]) :
                   /\ Pair(groupQueues[LastFlushes[k].groupId][i]) = Pair(LastFlushes[k].during[n])
                   /\ groupQueues[LastFlushes[k].groupId][i].payload
                         = LastFlushes[k].during[n].payload

\* the group has nothing pending, and the last action completed a flush of it
IdleByFlush(groupId) ==
    /\ ~PendingIn(groupId)
    /\ \E k \in 1..Len(LastFlushes) :
          LastFlushes[k].groupId = groupId /\ LastFlushes[k].completed

\* C29 (as stated): under fair bucket-timer ticks and without shutdown,
\* every group that is Pending eventually becomes Idle through a flush that
\* passes its pending updates to the bus.
C29_PendingIsEventuallyFlushed ==
    \A g \in Groups : PendingIn(g) ~> IdleByFlush(g)

\* C30: a flush of a group that has no live sink completes without invoking
\* any sink, leaves the group's pending list empty and stamps its last-flush
\* time; and every event a flush delivers carries an update that was
\* enqueued since the group's list was last cleared, so what a flush
\* discarded is never delivered to a subscriber that joins afterwards.
C30_NoSubscriberFlushDiscards ==
    \A k \in 1..Len(LastFlushes) :
       /\ LiveSinks(LastFlushes[k].groupId) = {} =>
             /\ LastFlushes[k].completed
             /\ \A i \in 1..Len(LastFlushes[k].calls) : LastFlushes[k].calls[i].sids = << >>
             /\ groupQueues[LastFlushes[k].groupId] = << >>
             /\ lastPublished[LastFlushes[k].groupId] = LastFlushes[k].at
       /\ \A i \in 1..Len(LastFlushes[k].calls) :
             /\ Pair(LastFlushes[k].calls[i]) \in DOMAIN LastFlushes[k].pending
             /\ LastFlushes[k].calls[i].payload
                   = LastFlushes[k].pending[Pair(LastFlushes[k].calls[i])]

\* a timer tick flushed a group that has pending updates, a subscriber that
\* cancelled earlier and no live sink: nothing was delivered, the list is
\* empty and the stamp is the time of the tick
C30_Witness ==
    /\ call.op = "tick"
    /\ delivered = << >>
    /\ \E k \in 1..Len(call.flushes) :
          /\ LiveSinks(call.flushes[k].groupId) = {}
          /\ \E sid \in 1..Len(subs) : subs[sid].groupId = call.flushes[k].groupId
          /\ call.flushes[k].calls # << >>
          /\ groupQueues[call.flushes[k].groupId] = << >>
          /\ lastPublished[call.flushes[k].groupId] = now

====
